---- MODULE Spec2Model ----
(***************************************************************************)
(* Document retrieval subsystem of the StoreIt cloud-storage application.  *)
(*                                                                         *)
(*  - SpecRag    : lib/ai/rag.ts, indexDocument and searchFileContentTool  *)
(*  - SpecSearch : the batched vector search of the AI agent (rag.py, as   *)
(*                 listed in ai-agent/PERFORMANCE_IMPROVEMENTS.md)         *)
(*  - SpecFallback : the same search with the client-side filter fallback *)
(*  - SpecCache  : the cache layer of the AI agent (cache.py: SimpleCache, *)
(*                 invalidate_user_cache)                                  *)
(*  - SpecMemo   : the cached decorator and the mutating tools rename /    *)
(*                 delete / share                                          *)
(*  - SpecFault  : the cached decorator when the cache or the wrapped      *)
(*                 operation fails                                         *)
(*  - SpecOcr    : the OCR retry loop of the indexing (rag.py)             *)
(*  - SpecDelete : indexDocument of rag.ts next to the delete of a file    *)
(*  - SpecChunk  : the chunkers                                            *)
(*  - SpecSim    : cosine_sim on its own                                   *)
(*  - SpecProxy  : the chat proxy route (app/api/ai/chat)                  *)
(*  - SpecRoute  : the file route (app/api/files/[fileId])                 *)
(*  - SpecChat   : the chat component (components/AI/ChatInterface.tsx)    *)
(***************************************************************************)
EXTENDS Integers, Sequences, FiniteSets, TLC

VARIABLES
    vectorStore,   \* rag.ts: documents of the 'file_embeddings' collection, in creation order
    vectorEnv,     \* rag.ts: process.env.NEXT_PUBLIC_APPWRITE_VECTOR_COLLECTION is set
    idx,           \* rag.ts: the running indexDocument call
    found,         \* rag.ts: the last searchFileContentTool call and what it returned
    collection,    \* rag.py: documents of the vector collection (file_id, content, embedding)
    srch,          \* rag.py: the running batched vector search
    now,           \* cache.py: the clock, in units of 300 seconds
    cache,         \* cache.py: the entries of the cache, key -> (value, expiresAt)
    lastSet,       \* history: per key, the latest set (value, end of ttl) not yet deleted or invalidated
    got,           \* cache.py: the get that has just returned
    invalidated,   \* history: the keys of invalidated owners not set since
    version,       \* tools.py: per owner, the mutations the database has applied
    returned,      \* history: per owner, the mutations that have returned success
    mut,           \* tools.py: the running rename / delete / share
    rd,            \* cache.py: the running memoized calls (cached decorator)
    ocr,           \* rag.py: the running process_file_for_search call and its OCR retry loop
    deleted,       \* file.actions: the files whose deleteFile has returned success
    chunked,       \* the chunkers: the text last split and its chunks
    sim,           \* rag.py: the vectors last compared by cosine_sim and the result
    proxy,         \* app/api/ai/chat route: the running POST request
    route,         \* app/api/files/[fileId] route: the running GET request
    chat           \* ChatInterface.tsx: the state of the chat component

vars == <<vectorStore, vectorEnv, idx, found, collection, srch, now, cache, lastSet, got,
          invalidated, version, returned, mut, rd, ocr, deleted, chunked, sim, proxy,
          route, chat>>

\* the variables of each part, left alone by the steps of the other parts
ragVars == <<vectorStore, vectorEnv, idx, found>>
searchVars == <<collection, srch>>
cacheVars == <<now, cache, lastSet, got, invalidated>>
memoVars == <<version, returned, mut, rd>>
pureVars == <<chunked, sim>>
webVars == <<proxy, route, chat>>
notRag == <<searchVars, cacheVars, memoVars, ocr, deleted, pureVars, webVars>>
notSearch == <<ragVars, cacheVars, memoVars, ocr, deleted, pureVars, webVars>>
notCache == <<ragVars, searchVars, memoVars, ocr, deleted, pureVars, webVars>>
notMemo == <<ragVars, searchVars, got, invalidated, ocr, deleted, pureVars, webVars>>
notOcr == <<ragVars, srch, cacheVars, memoVars, deleted, pureVars, webVars>>
agentVars == <<ragVars, searchVars, cacheVars, memoVars, ocr, deleted>>

(***************************************************************************)
(* Bounds of the model.                                                    *)
(***************************************************************************)
\* longest extracted text, in characters
MaxTextLen == 2
\* most documents the vector collection holds
MaxDocs == 3
\* rag.ts:58 splits into pieces of 1000 characters; the model splits into pieces of 1
CHUNK_SIZE == 1
\* PERFORMANCE_IMPROVEMENTS.md:217 caps a file at 50 chunks; the model caps at 1
MAX_CHUNKS_TO_INDEX == 1
\* PERFORMANCE_IMPROVEMENTS.md:231 returns the 5 best chunks; the model returns 1
TOP_CHUNKS_RETURNED == 1
\* PERFORMANCE_IMPROVEMENTS.md:138 queries 50 file ids at a time; the model queries 2
BATCH_SIZE == 2
\* PERFORMANCE_IMPROVEMENTS.md:147 asks for at most 500 documents per query; the model for 2
QUERY_LIMIT == 2
\* CODE_QUALITY_IMPROVEMENTS.md:41 allows 1000 candidates, twice the documents of one
\* query; the model allows 2, the documents of one query
MAX_VECTOR_RESULTS == 2
\* most documents of the vector collection a search runs over
MaxVectors == 3
\* the clock stops at MaxTime
MaxTime == 2
\* longest time-to-live a set is given
MaxTtl == 2
\* most mutations the database applies in all
MaxMutations == 1
\* CODE_QUALITY_IMPROVEMENTS.md:44, the calls of the OCR model one extraction may make
OCR_RETRY_MAX_ATTEMPTS == 3

Alphabet == {"a", "b"}
FileIds == {1, 2}
MimeTypes == {"application/pdf", "text/plain", "image/png"}

Min(a, b) == IF a <= b THEN a ELSE b

Range(seq) == {seq[k] : k \in 1..Len(seq)}

Texts == UNION {[1..n -> Alphabet] : n \in 0..MaxTextLen}

(***************************************************************************)
(* Pure helpers of rag.ts.                                                 *)
(***************************************************************************)
\* text.match(/[\s\S]{1,1000}/g) || []  : greedy pieces of CHUNK_SIZE characters,
\* the last one holding the remainder; no match (empty text) gives [].
\* SplitBy keeps the pieces of the full size and loses the remainder
SplitByDropRemainder(text, size) ==
    LET k == Len(text) \div size
    IN  [j \in 1..k |-> SubSeq(text, (j - 1) * size + 1, j * size)]

\* SplitBy matches once more at the end of the text
SplitByEmptyTail(text, size) ==
    LET n == Len(text)
        k == n \div size + 1
    IN  [j \in 1..k |-> SubSeq(text, (j - 1) * size + 1, Min(j * size, n))]

\* the match for pieces of at most size characters
SplitBy(text, size) ==
    LET n == Len(text)
        k == (n + size - 1) \div size
    IN  [j \in 1..k |-> SubSeq(text, (j - 1) * size + 1, Min(j * size, n))]

SplitChunks(text) == SplitBy(text, CHUNK_SIZE)

\* occurrences of character c in text
CountOf(text, c) == Cardinality({i \in 1..Len(text) : text[i] = c})

\* embeddings.embedQuery: the external embedding model, a function of the text alone
embedQuery(text) == <<CountOf(text, "a"), CountOf(text, "b")>>

\* Query.contains("content", query): the stored content contains the query string
Contains(content, q) ==
    \E i \in 0..(Len(content) - Len(q)) : SubSeq(content, i + 1, i + Len(q)) = q

\* every media type is taken for text
StartsWithAnything(mimeType) == TRUE

\* String.prototype.startsWith on the media type
StartsWithText(mimeType) == mimeType \in {"text/plain"}

(***************************************************************************)
(* Cosine similarity (PERFORMANCE_IMPROVEMENTS.md, cosine_sim): the score   *)
(* dot(a,b) / (|a| * |b|) is kept exactly, as a fraction of integers; a     *)
(* zero magnitude gives 0.                                                 *)
(***************************************************************************)
Dot(a, b) == a[1] * b[1] + a[2] * b[2]

\* x * |x|, which orders as x does
SignedSquare(x) == IF x < 0 THEN 0 - x * x ELSE x * x

RECURSIVE Gcd(_, _)
Gcd(x, y) == IF y = 0 THEN x ELSE Gcd(y, x % y)

Abs(x) == IF x < 0 THEN 0 - x ELSE x

\* cosine_sim divides by the product of the magnitudes whatever it is: a zero
\* magnitude leaves the quotient 0 / 0
cosine_simUnguarded(a, b) ==
    LET sq == SignedSquare(Dot(a, b))
        nn == Dot(a, a) * Dot(b, b)
        g == Gcd(Abs(sq), nn)
    IN  IF g = 0 THEN [num |-> 0, den |-> 0] ELSE [num |-> sq \div g, den |-> nn \div g]

\* the number c = dot / (|a| * |b|), held as the fraction num / den = c * |c| in
\* lowest terms, so that equal scores are equal values
cosine_sim(a, b) ==
    IF Dot(a, a) = 0 \/ Dot(b, b) = 0
    THEN [num |-> 0, den |-> 1]
    ELSE LET sq == SignedSquare(Dot(a, b))
             nn == Dot(a, a) * Dot(b, b)
             g == Gcd(Abs(sq), nn)
         IN  [num |-> sq \div g, den |-> nn \div g]

\* s <= t and s < t as numbers
ScoreLeq(s, t) == s.num * t.den <= t.num * s.den
ScoreLess(s, t) == s.num * t.den < t.num * s.den

\* indexDocument returns no value (Promise<void>): truncated is never reported
IdleIdx ==
    [pc |-> "idle", fileId |-> 0, mimeType |-> "", blob |-> <<>>, chunks |-> <<>>,
     i |-> 0, vector |-> <<>>, written |-> {}, failed |-> {}, outcome |-> "none",
     error |-> "none", truncated |-> FALSE]

\* text: the string the tool returned; calls: the external calls it made, in order
NoSearch ==
    [kind |-> "none", caller |-> {}, query |-> <<>>, docs |-> <<>>, text |-> <<>>,
     calls |-> <<>>]

\* batches, scored, fallbacks: history of the call, per storage query the file ids asked
\* for, the file ids of the documents scored, and whether the fallback was taken
IdleSearch ==
    [pc |-> "idle", user_file_ids |-> <<>>, query |-> <<>>, i |-> 0, all_scores |-> <<>>,
     batches |-> <<>>, scored |-> <<>>, fallbacks |-> {}, result |-> <<>>]

Readers == {1, 2}
Owners == {"u1", "u2"}

IdleMut == [pc |-> "idle", op |-> "", owner |-> "", ok |-> FALSE, cleared |-> 0]

\* floor: for a hit, how many mutations of the caller's data had returned success when
\* the call started; runs: how often the call has invoked the real operation; err: what
\* has failed during the call
IdleRead == [pc |-> "idle", hit |-> FALSE, floor |-> 0, runs |-> 0, err |-> "none"]

\* base: the documents of the collection when the call started; last: how the latest
\* call of the OCR model ended; waited: the backoff slept so far, in base delays
IdleOcr ==
    [pc |-> "idle", file_id |-> 0, attempts |-> 0, last |-> "none", waited |-> 0,
     base |-> 0, outcome |-> "none"]

NoChunks == [pc |-> "idle", by |-> "none", text |-> <<>>, size |-> 1, overlap |-> 0,
             chunks |-> <<>>]
NoSim == [pc |-> "idle", a |-> <<0, 0>>, b |-> <<0, 0>>, result |-> [num |-> 0, den |-> 1]]
\* cookie: the appwrite-session cookie of the request; calls: the requests sent to the
\* AI backend; backend: the status the backend answered with; status: the status of
\* the response of the route
NoCookie == [present |-> FALSE, value |-> ""]
IdleProxy ==
    [pc |-> "idle", cookie |-> NoCookie, body |-> "", calls |-> <<>>, backend |-> 0,
     status |-> 0, threw |-> FALSE]
\* user: what getCurrentUser gives; file: what getDocument gives; downloads: the
\* requests sent to the storage; status: the status of the response of the route
NoUser == [kind |-> "null", id |-> "", email |-> ""]
NoFile == [present |-> FALSE, owner |-> [kind |-> "null", id |-> ""], users |-> {}]
IdleRoute ==
    [pc |-> "idle", user |-> NoUser, file |-> NoFile, downloads |-> 0, status |-> 0,
     threw |-> FALSE]
\* the component after its first render: user is "pending" until getCurrentUser has
\* answered (currentUser is null till then); timers holds, per pending setTimeout of a
\* quick suggestion, the values the handleSubmit it will call was rendered with;
\* flights counts the requests sent and not yet ended
IdleChat ==
    [input |-> "", loading |-> FALSE, user |-> "pending", messages |-> <<"greeting">>,
     timers |-> <<>>, flights |-> 0]

\* the chunkers, the similarity and the web routes at rest
OthersAtRest ==
    /\ chunked = NoChunks
    /\ sim = NoSim
    /\ proxy = IdleProxy
    /\ route = IdleRoute
    /\ chat = IdleChat

\* the cache part at rest
CacheAtRest ==
    /\ now = 0
    /\ cache = <<>>
    /\ lastSet = <<>>
    /\ got = [kind |-> "none"]
    /\ invalidated = {}
    /\ version = [u \in Owners |-> 0]
    /\ returned = [u \in Owners |-> 0]
    /\ mut = IdleMut
    /\ rd = [r \in Readers |-> IdleRead]

InitRag ==
    /\ collection = <<>>
    /\ srch = IdleSearch
    /\ CacheAtRest
    /\ vectorStore = <<>>
    /\ vectorEnv \in BOOLEAN
    /\ idx = IdleIdx
    /\ found = NoSearch
    /\ ocr = IdleOcr
    /\ deleted = {}
    /\ OthersAtRest

(***************************************************************************)
(* rag.ts indexDocument, one action per await.                             *)
(***************************************************************************)
\* the catch block of indexDocument: log and return normally
Caught(what) == [idx EXCEPT !.pc = "done", !.outcome = "returned", !.error = what]

\* an exception that leaves indexDocument: the promise rejects
Raised(what) == [idx EXCEPT !.pc = "done", !.outcome = "raised", !.error = what]

\* found holds the result of the searches made since the last indexing call; the
\* callers index a file that exists
indexDocument_call ==
    /\ idx.pc = "idle"
    /\ Len(vectorStore) < MaxDocs
    /\ \E f \in FileIds \ deleted, m \in MimeTypes, t \in Texts :
          idx' = [IdleIdx EXCEPT !.pc = "client", !.fileId = f, !.mimeType = m, !.blob = t]
    /\ found' = NoSearch
    /\ UNCHANGED <<vectorStore, vectorEnv, notRag>>

\* line 43, outside the try block
createAdminClient_step ==
    /\ idx.pc = "client"
    /\ \/ idx' = [idx EXCEPT !.pc = "download"]
       \/ idx' = Raised("client")
    /\ UNCHANGED <<vectorStore, vectorEnv, found, notRag>>

\* line 49
getFileDownload_step ==
    /\ idx.pc = "download"
    /\ \/ idx' = [idx EXCEPT !.pc = "extract"]
       \/ idx' = Caught("download")
    /\ UNCHANGED <<vectorStore, vectorEnv, found, notRag>>

\* the first chunk goes to the collection before it has been embedded
AfterExtractSkipEmbed(text) ==
    LET cs == SplitChunks(text)
    IN  IF cs = <<>>
        THEN [idx EXCEPT !.pc = "done", !.outcome = "returned", !.chunks = cs]
        ELSE [idx EXCEPT !.pc = "store", !.chunks = cs, !.i = 1]

\* after the text is known: lines 58-62, the split and the loop head
AfterExtract(text) ==
    LET cs == SplitChunks(text)
    IN  IF cs = <<>>
        THEN [idx EXCEPT !.pc = "done", !.outcome = "returned", !.chunks = cs]
        ELSE [idx EXCEPT !.pc = "embed", !.chunks = cs, !.i = 1]

\* lines 21-33 and 54
extractTextFromFile_step ==
    /\ idx.pc = "extract"
    /\ IF idx.mimeType = "application/pdf"
       THEN \/ idx' = AfterExtract(idx.blob)
            \/ idx' = Caught("extract")
       ELSE IF StartsWithText(idx.mimeType)
       THEN idx' = AfterExtract(idx.blob)
       ELSE idx' = Caught("unsupported")
    /\ UNCHANGED <<vectorStore, vectorEnv, found, notRag>>

\* lines 64-71: the embedding of chunk i, then the configuration check
embedQuery_step ==
    /\ idx.pc = "embed"
    /\ \/ IF vectorEnv
          THEN idx' = [idx EXCEPT !.pc = "store", !.vector = embedQuery(idx.chunks[idx.i])]
          ELSE idx' = [idx EXCEPT !.pc = "done", !.outcome = "returned",
                                  !.error = "notconfigured"]
       \/ idx' = [Caught("embed") EXCEPT !.failed = idx.failed \cup {idx.i}]
    /\ UNCHANGED <<vectorStore, vectorEnv, found, notRag>>

\* lines 73-84: the document of chunk i, then the next chunk or the end of the loop
createDocument_step ==
    /\ idx.pc = "store"
    /\ \/ /\ vectorStore' = Append(vectorStore,
                 [fileId |-> idx.fileId, content |-> idx.chunks[idx.i], vector |-> idx.vector])
          /\ idx' = IF idx.i = Len(idx.chunks)
                    THEN [idx EXCEPT !.pc = "done", !.outcome = "returned",
                                     !.written = idx.written \cup {idx.i}]
                    ELSE [idx EXCEPT !.pc = "embed", !.i = idx.i + 1,
                                     !.written = idx.written \cup {idx.i}]
       \/ /\ idx' = [Caught("store") EXCEPT !.failed = idx.failed \cup {idx.i}]
          /\ UNCHANGED vectorStore
    /\ UNCHANGED <<vectorEnv, found, notRag>>

\* the caller has the outcome; the next call may start
indexDocument_return ==
    /\ idx.pc = "done"
    /\ idx' = IdleIdx
    /\ UNCHANGED <<vectorStore, vectorEnv, found, notRag>>

(***************************************************************************)
(* rag.ts searchFileContentTool.  The tool takes the query alone; caller   *)
(* is the set of file ids the asking user may access, which the tool never *)
(* receives.  Between its awaits the tool keeps no state of its own and    *)
(* reads the collection once, so the call is one step.  It is taken        *)
(* between two indexDocument calls: a collection content reached inside a  *)
(* call is also the content after that call has ended (at once, or by      *)
(* failing at its next step), so no result of the tool is lost.            *)
(***************************************************************************)
Queries == [1..1 -> Alphabet]

\* lines 132-140: listDocuments with the one filter Query.contains("content", query)
listDocuments(store, q) == SelectSeq(store, LAMBDA d : Contains(d.content, q))

\* the fixed replies of the tool, each held as one symbol, and the separator of join
NOT_CONFIGURED == <<"Vector search not configured.">>
NO_RELEVANT == <<"No relevant content found in documents.">>
FAILED_SEARCH == <<"Failed to search document content.">>
SEPARATOR == <<"\n---\n">>

\* line 143: results.documents.map(d => d.content).join("\n---\n")
RECURSIVE JoinContents(_)
JoinContents(docs) ==
    IF docs = <<>> THEN <<>>
    ELSE IF Len(docs) = 1 THEN docs[1].content
    ELSE docs[1].content \o SEPARATOR \o JoinContents(Tail(docs))

\* line 145: relevantContent || "No relevant content found in documents."
ToolReplyAsJoined(relevantContent) == relevantContent

ToolReply(relevantContent) ==
    IF relevantContent = <<>> THEN NO_RELEVANT ELSE relevantContent

\* lines 97-151
searchFileContentTool ==
    \E S \in SUBSET FileIds, q \in Queries :
       /\ idx.pc = "idle"
       /\ \/ found' = [kind |-> "raised", caller |-> S, query |-> q, docs |-> <<>>,
                        text |-> <<>>, calls |-> <<"createAdminClient">>]
          \/ /\ ~vectorEnv
             /\ found' = [kind |-> "notconfigured", caller |-> S, query |-> q, docs |-> <<>>,
                          text |-> NOT_CONFIGURED, calls |-> <<"createAdminClient">>]
          \/ /\ vectorEnv
             /\ \E made \in {<<"createAdminClient", "embedQuery">>,
                              <<"createAdminClient", "embedQuery", "listDocuments">>} :
                   found' = [kind |-> "failed", caller |-> S, query |-> q, docs |-> <<>>,
                             text |-> FAILED_SEARCH, calls |-> made]
          \/ /\ vectorEnv
             /\ LET results == listDocuments(vectorStore, q)
                    relevantContent == JoinContents(results)
                IN  found' = [kind |-> IF relevantContent = <<>> THEN "norelevant"
                                                                ELSE "content",
                              caller |-> S, query |-> q, docs |-> results,
                              text |-> ToolReply(relevantContent),
                              calls |-> <<"createAdminClient", "embedQuery",
                                          "listDocuments">>]
       /\ UNCHANGED <<vectorStore, vectorEnv, idx, notRag>>

NextRag ==
    \/ searchFileContentTool
    \/ indexDocument_call
    \/ createAdminClient_step
    \/ getFileDownload_step
    \/ extractTextFromFile_step
    \/ embedQuery_step
    \/ createDocument_step
    \/ indexDocument_return

SpecRag == InitRag /\ [][NextRag]_vars

(***************************************************************************)
(* deleteFileTool (CODE_QUALITY_IMPROVEMENTS.md 451-464) hands the file id *)
(* to deleteFile of lib/actions/file.actions: the file goes and, the       *)
(* cascade being the store adapter's duty, so do its chunk records.  A     *)
(* file may be deleted while indexDocument is still indexing it.           *)
(***************************************************************************)
\* the collection without the chunk records of file f
DeleteChunks(store, f) == SelectSeq(store, LAMBDA d : d.fileId # f)

\* deleteFile({ fileId, bucketFileId, path }) returns success
deleteFile ==
    /\ \E f \in FileIds \ deleted :
          /\ deleted' = deleted \cup {f}
          /\ vectorStore' = DeleteChunks(vectorStore, f)
    /\ UNCHANGED <<vectorEnv, idx, found, searchVars, cacheVars, memoVars, ocr, pureVars,
                   webVars>>

NextDelete ==
    \/ indexDocument_call
    \/ createAdminClient_step
    \/ getFileDownload_step
    \/ extractTextFromFile_step
    \/ embedQuery_step
    \/ createDocument_step
    \/ indexDocument_return
    \/ deleteFile

SpecDelete == InitRag /\ [][NextDelete]_vars

(***************************************************************************)
(* Claims about rag.ts.                                                    *)
(***************************************************************************)
\* the tool answered with the documents the collection gave it
Answered == found.kind \in {"content", "norelevant"}

\* C1: every result of the search comes from a chunk record whose owner file id
\* is among the caller's accessible file ids.
C1_SearchIsolated ==
    Answered => \A k \in 1..Len(found.docs) : found.docs[k].fileId \in found.caller

\* the score of a returned document against the query vector
ScoreOf(d) == cosine_sim(embedQuery(found.query), d.vector)

\* C4: the search returns at most topK results, ordered by non-increasing score.
C4_TopKSorted ==
    Answered =>
        /\ Len(found.docs) <= TOP_CHUNKS_RETURNED
        /\ \A k \in 1..(Len(found.docs) - 1) :
               ScoreLeq(ScoreOf(found.docs[k + 1]), ScoreOf(found.docs[k]))

\* an indexing call that ended with no failure, the collection being configured
IndexedCleanly ==
    /\ idx.pc = "done"
    /\ idx.outcome = "returned"
    /\ idx.error = "none"
    /\ vectorEnv

\* C6: a text of n chunks under the cap N writes exactly the first min(n, N) chunks,
\* and truncated is reported exactly when n > N.
C6_ChunkCap ==
    IndexedCleanly =>
        /\ idx.written = 1..Min(Len(idx.chunks), MAX_CHUNKS_TO_INDEX)
        /\ idx.truncated <=> (Len(idx.chunks) > MAX_CHUNKS_TO_INDEX)

\* C7: a chunk that fails to embed or to be written is skipped alone: every later
\* chunk of the file is still written.
C7_FailureSkipsOneChunk ==
    (idx.pc = "done" /\ vectorEnv) =>
        \A j \in idx.failed : \A k \in 1..Len(idx.chunks) : k > j => k \in idx.written

\* C8: indexDocument returns normally whatever fails, the admin client included.
C8_IndexNeverRaises == idx.pc = "done" => idx.outcome = "returned"

\* the contents of the chunk records of file f, in creation order
ContentsOf(f) ==
    LET own == SelectSeq(vectorStore, LAMBDA d : d.fileId = f)
    IN  [k \in 1..Len(own) |-> own[k].content]

\* C21: indexing a file again leaves the chunk records of indexing it once: after a
\* call that ended with no failure, the records of the file all holding chunks of the
\* text just indexed, these records are the chunks of the text, each stored once.
C21_ReindexIdempotent ==
    (/\ IndexedCleanly
     /\ Range(ContentsOf(idx.fileId)) \subseteq Range(idx.chunks))
    => ContentsOf(idx.fileId) = idx.chunks

\* C22: once the delete of a file has returned success the collection holds no chunk
\* record of that file.
C22_NoOrphanedChunks ==
    \A k \in 1..Len(vectorStore) : vectorStore[k].fileId \notin deleted

\* the running call indexes a file whose media type is neither PDF nor a text format
UnsupportedCall ==
    idx.pc # "idle" /\ idx.mimeType \notin {"application/pdf", "text/plain"}

\* C26: for a media type that is neither PDF nor a text format the extraction fails
\* and is not tried again, no embedding is requested, no chunk record is written and
\* the bytes never become chunks.
C26_UnsupportedIsPermanent ==
    /\ [](UnsupportedCall =>
            /\ idx.pc \notin {"embed", "store"}
            /\ idx.chunks = <<>>
            /\ idx.vector = <<>>
            /\ idx.written = {})
    /\ [][(UnsupportedCall /\ idx.pc = "extract") =>
            (idx'.pc = "done" /\ idx'.error = "unsupported")]_vars
    /\ [][UnsupportedCall => vectorStore' = vectorStore]_vars

\* the indexing of an image with bytes in it has ended in the unsupported-type error
C26_Witness ==
    /\ idx.pc = "done"
    /\ idx.mimeType = "image/png"
    /\ idx.blob # <<>>
    /\ idx.error = "unsupported"

\* C27: the steps of one indexing call follow one another: extraction starts from a
\* finished download, the chunks appear at the end of the extraction, chunk i is
\* embedded when the chunks before it are written, and a record enters the collection
\* only from the store step, holding the chunk and the embedding of that chunk.
C27_StepsSequential ==
    /\ [](idx.chunks # <<>> => idx.pc \in {"embed", "store", "done"})
    /\ [](idx.pc = "embed" => idx.written = 1..(idx.i - 1))
    /\ [](idx.pc = "store" =>
            /\ idx.vector = embedQuery(idx.chunks[idx.i])
            /\ idx.written = 1..(idx.i - 1))
    /\ [][idx'.pc = "extract" => idx.pc = "download"]_vars
    /\ [][idx'.chunks # idx.chunks => (idx.pc = "extract" \/ idx'.pc = "idle")]_vars
    /\ [][idx'.pc = "store" => idx.pc = "embed"]_vars
    /\ [][vectorStore' # vectorStore =>
            /\ idx.pc = "store"
            /\ vectorStore' = Append(vectorStore,
                   [fileId |-> idx.fileId, content |-> idx.chunks[idx.i],
                    vector |-> embedQuery(idx.chunks[idx.i])])]_vars

\* the second chunk of a text is about to be embedded, the first one being written
C27_Witness ==
    /\ idx.pc = "embed"
    /\ idx.i = 2
    /\ idx.written = {1}
    /\ \E k \in 1..Len(vectorStore) :
          /\ vectorStore[k].fileId = idx.fileId
          /\ vectorStore[k].content = idx.chunks[1]

\* C19: whenever the store query of searchFileContentTool yields no document, the
\* tool returns the fixed text "No relevant content found in documents.", without a
\* call of the answer-generation model.
C19_NoChunkNoAnswer ==
    (Answered /\ found.docs = <<>>) =>
        /\ found.text = NO_RELEVANT
        /\ found.kind = "norelevant"
        /\ Range(found.calls) = {"createAdminClient", "embedQuery", "listDocuments"}

\* the collection holds chunks, none of them contains the query, and the tool said so
C19_Witness ==
    /\ found.kind = "norelevant"
    /\ found.text = NO_RELEVANT
    /\ vectorStore # <<>>
    /\ \A k \in 1..Len(vectorStore) : ~Contains(vectorStore[k].content, found.query)
(***************************************************************************)
(* rag.py, the batched vector search (PERFORMANCE_IMPROVEMENTS.md 136-162). *)
(* The collection is given and does not change while searches run.         *)
(***************************************************************************)
SearchFileIds == {1, 2, 3}
SearchContents == {<<"a">>, <<"b">>, <<"a", "b">>, <<"b", "a">>}

\* a chunk document as the indexer writes it: the embedding is that of the content
VectorDocs ==
    {[file_id |-> f, content |-> c, embedding |-> embedQuery(c)] :
        f \in SearchFileIds, c \in SearchContents}

Collections == UNION {[1..n -> VectorDocs] : n \in 0..MaxVectors}

\* the user's file ids, in file-id order
RECURSIVE Ascending(_)
Ascending(S) ==
    IF S = {} THEN <<>>
    ELSE LET m == CHOOSE x \in S : \A y \in S : x <= y
         IN  <<m>> \o Ascending(S \ {m})

UserFileIdLists == {Ascending(S) : S \in SUBSET SearchFileIds}

\* user_file_ids[i:i+BATCH_SIZE], i counting from 0
BatchIdsDropLast(ids, i) == SubSeq(ids, i + 1, Min(i + BATCH_SIZE - 1, Len(ids)))

BatchIds(ids, i) == SubSeq(ids, i + 1, Min(i + BATCH_SIZE, Len(ids)))

\* the first lim elements of seq
Take(seq, lim) == SubSeq(seq, 1, Min(lim, Len(seq)))

\* databases.list_documents(Query.equal("file_id", batch_ids), Query.limit(lim))
list_documents(docs, batch_ids, lim) ==
    Take(SelectSeq(docs, LAMBDA d : d.file_id \in Range(batch_ids)), lim)

\* the file ids of docs, in order
FileIdsOf(docs) == [k \in 1..Len(docs) |-> docs[k].file_id]

\* the inner loop: one (score, content) pair per returned document, in order
ScoreAll(query, docs) ==
    [k \in 1..Len(docs) |->
        [score |-> cosine_sim(query, docs[k].embedding), content |-> docs[k].content]]

\* Python's order on strings, by code point: "a" < "b"
Ord(c) == IF c = "a" THEN 1 ELSE 2

RECURSIVE StrLess(_, _)
StrLess(x, y) ==
    IF y = <<>> THEN FALSE
    ELSE IF x = <<>> THEN TRUE
    ELSE IF Ord(Head(x)) # Ord(Head(y)) THEN Ord(Head(x)) < Ord(Head(y))
    ELSE StrLess(Tail(x), Tail(y))

\* Python's order on the tuples (score, content)
TupleLess(x, y) ==
    \/ ScoreLess(x.score, y.score)
    \/ /\ x.score = y.score
       /\ StrLess(x.content, y.content)

\* list.sort(reverse=True): descending and stable (equal tuples keep their order)
RECURSIVE InsertDesc(_, _)
InsertDesc(sorted, x) ==
    IF sorted = <<>> THEN <<x>>
    ELSE IF TupleLess(Head(sorted), x) THEN <<x>> \o sorted
    ELSE <<Head(sorted)>> \o InsertDesc(Tail(sorted), x)

RECURSIVE SortDesc(_)
SortDesc(seq) ==
    IF seq = <<>> THEN <<>>
    ELSE InsertDesc(SortDesc(SubSeq(seq, 1, Len(seq) - 1)), seq[Len(seq)])

\* all_scores.sort(reverse=True); return all_scores[:TOP_K]
TopK(all_scores) == Take(SortDesc(all_scores), TOP_CHUNKS_RETURNED)

InitSearch ==
    /\ CacheAtRest
    /\ collection \in Collections
    /\ srch = IdleSearch
    /\ vectorStore = <<>>
    /\ vectorEnv = TRUE
    /\ idx = IdleIdx
    /\ found = NoSearch
    /\ ocr = IdleOcr
    /\ deleted = {}
    /\ OthersAtRest

\* the loop head after offset i: another batch, or the sort and the return
AfterBatch(s) ==
    IF s.i < Len(s.user_file_ids)
    THEN [s EXCEPT !.pc = "batch"]
    ELSE [s EXCEPT !.pc = "done", !.result = TopK(s.all_scores)]

\* lines 139-141: the call, up to the first storage query
search_call ==
    /\ srch.pc = "idle"
    /\ \E ids \in UserFileIdLists, q \in Queries :
          srch' = AfterBatch([IdleSearch EXCEPT !.user_file_ids = ids,
                                                !.query = embedQuery(q)])
    /\ UNCHANGED <<collection, notSearch>>

\* lines 142-157: one batch, its storage query and the scores of what it returned
search_batch ==
    /\ srch.pc = "batch"
    /\ LET batch_ids == BatchIds(srch.user_file_ids, srch.i)
           vectors == list_documents(collection, batch_ids, QUERY_LIMIT)
       IN  srch' = AfterBatch([srch EXCEPT
                       !.i = srch.i + BATCH_SIZE,
                       !.batches = Append(srch.batches, batch_ids),
                       !.scored = Append(srch.scored, FileIdsOf(vectors)),
                       !.all_scores = srch.all_scores \o ScoreAll(srch.query, vectors)])
    /\ UNCHANGED <<collection, notSearch>>

\* the caller has the result; the next search may start
search_return ==
    /\ srch.pc = "done"
    /\ srch' = IdleSearch
    /\ UNCHANGED <<collection, notSearch>>

NextSearch ==
    \/ search_call
    \/ search_batch
    \/ search_return

SpecSearch == InitSearch /\ [][NextSearch]_vars

(***************************************************************************)
(* Claims about the batched search.                                        *)
(***************************************************************************)
\* ceil(n / B)
CeilDiv(n, b) == (n + b - 1) \div b

\* the chunks of the user's files, scored in one pass over the whole collection
AllAtOnce ==
    ScoreAll(srch.query,
             SelectSeq(collection, LAMBDA d : d.file_id \in Range(srch.user_file_ids)))

\* no storage query of the search was cut by its document limit
NoBatchCut ==
    \A k \in 1..Len(srch.batches) :
        Len(SelectSeq(collection, LAMBDA d : d.file_id \in Range(srch.batches[k])))
            <= QUERY_LIMIT

\* one storage query per batch, ceil(n / B) in all, each file id in exactly one batch
BatchesPartition ==
    /\ Len(srch.batches) = CeilDiv(Len(srch.user_file_ids), BATCH_SIZE)
    /\ \A f \in Range(srch.user_file_ids) :
          Cardinality({k \in 1..Len(srch.batches) : f \in Range(srch.batches[k])}) = 1

C16_CandidatesBounded == Len(srch.all_scores) <= MAX_VECTOR_RESULTS

\* the first scanned of the candidates with the highest score
FirstBest(all_scores) ==
    CHOOSE k \in 1..Len(all_scores) :
        /\ \A j \in 1..Len(all_scores) : ScoreLeq(all_scores[j].score, all_scores[k].score)
        /\ \A j \in 1..(k - 1) : ScoreLess(all_scores[j].score, all_scores[k].score)

\* C18: of candidates with equal scores the one scanned earlier comes first in the
\* result: the first result is the first scanned of the candidates with the highest
\* score.
C18_StableTieBreak ==
    (srch.pc = "done" /\ srch.all_scores # <<>>) =>
        srch.result[1] = srch.all_scores[FirstBest(srch.all_scores)]

(***************************************************************************)
(* The batched search with the fallback of PERFORMANCE_IMPROVEMENTS.md 168 *)
(* ("Client-side filter if query fails"): when the filtered query of a     *)
(* batch fails, the documents are fetched without the file_id filter and   *)
(* filtered by the caller.                                                 *)
(***************************************************************************)
\* the client-side filter: the documents whose file_id is in the batch
ClientSideFilterNone(docs, batch_ids) == docs

ClientSideFilter(docs, batch_ids) ==
    SelectSeq(docs, LAMBDA d : d.file_id \in Range(batch_ids))

\* one batch whose filtered query fails: unfiltered fetch, client-side filter, scores
search_batch_fallback ==
    /\ srch.pc = "batch"
    /\ LET batch_ids == BatchIds(srch.user_file_ids, srch.i)
           unfiltered == Take(collection, QUERY_LIMIT)
           vectors == ClientSideFilter(unfiltered, batch_ids)
       IN  srch' = AfterBatch([srch EXCEPT
                       !.i = srch.i + BATCH_SIZE,
                       !.batches = Append(srch.batches, batch_ids),
                       !.scored = Append(srch.scored, FileIdsOf(vectors)),
                       !.fallbacks = srch.fallbacks \cup {Len(srch.batches) + 1},
                       !.all_scores = srch.all_scores \o ScoreAll(srch.query, vectors)])
    /\ UNCHANGED <<collection, notSearch>>

NextFallback ==
    \/ search_call
    \/ search_batch
    \/ search_batch_fallback
    \/ search_return

SpecFallback == InitSearch /\ [][NextFallback]_vars

Users == {"u1", "u2"}
\* the key prefixes of the cache instances
Namespaces == {"search", "content"}
Args == {"q"}
Values == {1, 2}

\* the key of a memoized call: operation name, acting user, arguments
AllKeys == [ns : Namespaces, user : Users, args : Args]

\* the keys in use: two prefixes of one user, one prefix of two users
Keys == {k \in AllKeys : k.user = "u1" \/ k.ns = "search"}

\* c without key k
Remove(c, k) == [x \in DOMAIN c \ {k} |-> c[x]]

\* c with key k bound to e
Bind(c, k, e) == [x \in DOMAIN c \cup {k} |-> IF x = k THEN e ELSE c[x]]

\* the entry of k is present and has not expired at time t
LiveExpiredAtOnly(c, k, t) == k \in DOMAIN c /\ t <= c[k].expiresAt

Live(c, k, t) == k \in DOMAIN c /\ t < c[k].expiresAt

\* get(key): the value of a live entry, absent otherwise
GetResult(c, k, t) ==
    IF Live(c, k, t) THEN [hit |-> TRUE, value |-> c[k].value]
    ELSE [hit |-> FALSE, value |-> 0]

\* get(key): an expired entry is removed on the way
GetCache(c, k, t) == IF k \in DOMAIN c /\ ~Live(c, k, t) THEN Remove(c, k) ELSE c

\* set(key, value, ttl)
SetCacheNoTtl(c, k, v, ttl, t) == Bind(c, k, [value |-> v, expiresAt |-> t])

SetCache(c, k, v, ttl, t) == Bind(c, k, [value |-> v, expiresAt |-> t + ttl])

\* cleanup_expired(): every expired entry goes
CleanupExpired(c, t) == [x \in {k \in DOMAIN c : Live(c, k, t)} |-> c[x]]

\* invalidate_user_cache(user_id): every entry of the user goes, whatever its prefix
InvalidateSearchPrefixOnly(c, u) ==
    [x \in {k \in DOMAIN c : ~(k.user = u /\ k.ns = "search")} |-> c[x]]

InvalidateUserCache(c, u) == [x \in {k \in DOMAIN c : k.user # u} |-> c[x]]

NoGet == [kind |-> "none"]

InitCache ==
    /\ CacheAtRest
    /\ collection = <<>>
    /\ srch = IdleSearch
    /\ vectorStore = <<>>
    /\ vectorEnv = TRUE
    /\ idx = IdleIdx
    /\ found = NoSearch
    /\ ocr = IdleOcr
    /\ deleted = {}
    /\ OthersAtRest

cache_set ==
    /\ \E k \in Keys, v \in Values, ttl \in 1..MaxTtl :
          /\ cache' = SetCache(cache, k, v, ttl, now)
          /\ lastSet' = Bind(lastSet, k, [value |-> v, until |-> now + ttl])
          /\ invalidated' = invalidated \ {k}
    /\ got' = NoGet
    /\ UNCHANGED <<now, notCache>>

cache_get ==
    /\ \E k \in Keys :
          /\ got' = [kind |-> "get", key |-> k, at |-> now, res |-> GetResult(cache, k, now)]
          /\ cache' = GetCache(cache, k, now)
    /\ UNCHANGED <<now, lastSet, invalidated, notCache>>

cache_delete ==
    /\ \E k \in DOMAIN cache :
          /\ cache' = Remove(cache, k)
          /\ lastSet' = Remove(lastSet, k)
    /\ got' = NoGet
    /\ UNCHANGED <<now, invalidated, notCache>>

cleanup_expired ==
    /\ cache' = CleanupExpired(cache, now)
    /\ cache' # cache
    /\ got' = NoGet
    /\ UNCHANGED <<now, lastSet, invalidated, notCache>>

invalidate_user_cache ==
    /\ \E u \in Users :
          /\ cache' = InvalidateUserCache(cache, u)
          /\ lastSet' = InvalidateUserCache(lastSet, u)
          /\ invalidated' = invalidated \cup {k \in Keys : k.user = u}
          /\ cache' # cache
    /\ got' = NoGet
    /\ UNCHANGED <<now, notCache>>

\* time passes
Tick ==
    /\ now < MaxTime
    /\ now' = now + 1
    /\ got' = NoGet
    /\ UNCHANGED <<cache, lastSet, invalidated, notCache>>

NextCache ==
    \/ cache_set
    \/ cache_get
    \/ cache_delete
    \/ cleanup_expired
    \/ invalidate_user_cache
    \/ Tick

SpecCache == InitCache /\ [][NextCache]_vars

(***************************************************************************)
(* Claims about the cache.                                                 *)
(***************************************************************************)
\* the get that just returned asked for a key set earlier and since then neither
\* deleted nor invalidated
GotAfterSet == got.kind = "get" /\ got.key \in DOMAIN lastSet

\* C9: a get after set(k, v, ttl) and before the ttl has elapsed, with no set, delete
\* or invalidation of k in between, returns v.
C9_SetGetRoundTrip ==
    (GotAfterSet /\ got.at < lastSet[got.key].until) =>
        got.res = [hit |-> TRUE, value |-> lastSet[got.key].value]

\* a get returned the value set for its key in the last instant of its ttl, another
\* entry having expired and been removed
C9_Witness ==
    /\ GotAfterSet
    /\ got.res.hit
    /\ got.at > 0
    /\ got.at + 1 = lastSet[got.key].until
    /\ \E k \in DOMAIN lastSet : k \notin DOMAIN cache

C11_InvalidatedAbsent ==
    /\ \A k \in invalidated : ~GetResult(cache, k, now).hit
    /\ (got.kind = "get" /\ got.key \in invalidated) => ~got.res.hit

\* a get of an invalidated key under the content prefix returned absent, the owner's
\* key under the search prefix being invalidated too and set again since, and an
\* entry of the other user being still there
C11_Witness ==
    /\ got.kind = "get"
    /\ got.key \in invalidated
    /\ got.key.ns = "content"
    /\ \E k \in DOMAIN cache : k.user = got.key.user /\ k.ns = "search" /\ Live(cache, k, now)
    /\ \E k \in DOMAIN cache : k.user # got.key.user /\ Live(cache, k, now)
(***************************************************************************)
(* cache.py, the cached decorator, and tools.py, the mutating tools        *)
(* (PERFORMANCE_IMPROVEMENTS.md 18-37 and 76-94).  Every database call is  *)
(* awaited on an executor: the call takes effect at one step and the       *)
(* coroutine that awaits it resumes at a later one.                        *)
(***************************************************************************)
MutatingOps == {"rename", "delete", "share"}

\* the memoized calls: operation name (the key prefix), acting user, arguments
MemoCalls == [op : {"search"}, user : Users, args : Args]

\* the key of a memoized call: the prefix, and the digest of the arguments, the acting
\* user's id among them; distinct argument lists have distinct digests
CacheKeyNoUser(op, user, args) == [ns |-> op, user |-> "u1", args |-> args]

CacheKey(op, user, args) == [ns |-> op, user |-> user, args |-> args]

\* the keys memoized calls use
MemoKeys == {CacheKey(c.op, c.user, c.args) : c \in MemoCalls}

\* the default ttl of each cache instance, in units of 300 seconds
DefaultTtl(ns) == IF ns = "search" THEN 1 ELSE 2

\* the real operation: what the data of the acting user give for the arguments
RealOp(call, data) == [call |-> call, ver |-> data[call.user]]

\* cached(...): the key is looked up first; a hit returns at once
memo_call(r) ==
    /\ rd[r].pc = "idle"
    /\ \E c \in MemoCalls :
          LET k == CacheKey(c.op, c.user, c.args)
              res == GetResult(cache, k, now)
          IN  /\ cache' = GetCache(cache, k, now)
              /\ rd' = [rd EXCEPT ![r] =
                     IF res.hit
                     THEN [pc |-> "done", call |-> c, key |-> k, hit |-> TRUE,
                           result |-> res.value, floor |-> returned[c.user], runs |-> 0,
                           err |-> "none"]
                     ELSE [pc |-> "running", call |-> c, key |-> k, hit |-> FALSE,
                           floor |-> 0, runs |-> 0, err |-> "none"]]
    /\ UNCHANGED <<now, lastSet, version, returned, mut, notMemo>>

\* the real operation reads the database
memo_readShared(r) ==
    /\ rd[r].pc = "running"
    /\ \E o \in Readers :
          /\ rd[o].pc \in {"running", "fetched"}
          /\ rd' = [rd EXCEPT ![r] = [pc |-> "fetched", call |-> rd[r].call, key |-> rd[r].key,
                                      hit |-> FALSE, floor |-> rd[r].floor,
                                      runs |-> rd[r].runs + 1, err |-> rd[r].err,
                                      result |-> RealOp(rd[o].call, version)]]
    /\ UNCHANGED <<now, cache, lastSet, version, returned, mut, notMemo>>

memo_read(r) ==
    /\ rd[r].pc = "running"
    /\ rd' = [rd EXCEPT ![r] = [pc |-> "fetched", call |-> rd[r].call, key |-> rd[r].key,
                                hit |-> FALSE, floor |-> rd[r].floor,
                                runs |-> rd[r].runs + 1, err |-> rd[r].err,
                                result |-> RealOp(rd[r].call, version)]]
    /\ UNCHANGED <<now, cache, lastSet, version, returned, mut, notMemo>>

\* the decorator resumes: the result is cached and returned
memo_storeNotCached(r) ==
    /\ rd[r].pc = "fetched"
    /\ lastSet' = Bind(lastSet, rd[r].key,
                       [value |-> rd[r].result, until |-> now + DefaultTtl(rd[r].key.ns)])
    /\ rd' = [rd EXCEPT ![r].pc = "done"]
    /\ UNCHANGED <<now, cache, version, returned, mut, notMemo>>

memo_store(r) ==
    /\ rd[r].pc = "fetched"
    /\ cache' = SetCache(cache, rd[r].key, rd[r].result, DefaultTtl(rd[r].key.ns), now)
    /\ lastSet' = Bind(lastSet, rd[r].key,
                       [value |-> rd[r].result, until |-> now + DefaultTtl(rd[r].key.ns)])
    /\ rd' = [rd EXCEPT ![r].pc = "done"]
    /\ UNCHANGED <<now, version, returned, mut, notMemo>>

\* the caller has the result
memo_return(r) ==
    /\ rd[r].pc = "done"
    /\ rd' = [rd EXCEPT ![r] = IdleRead]
    /\ UNCHANGED <<now, cache, lastSet, version, returned, mut, notMemo>>

\* rename_file / delete_file / share_file is called for a file of owner u
mutate_call ==
    /\ mut.pc = "idle"
    /\ \E op \in MutatingOps, u \in Owners :
          /\ version["u1"] + version["u2"] < MaxMutations
          /\ mut' = [IdleMut EXCEPT !.pc = "pending", !.op = op, !.owner = u]
    /\ UNCHANGED <<now, cache, lastSet, version, returned, rd, notMemo>>

\* the database applies the mutation, or refuses it
mutate_apply ==
    /\ mut.pc = "pending"
    /\ \/ /\ version' = [version EXCEPT ![mut.owner] = @ + 1]
          /\ mut' = [mut EXCEPT !.pc = "applied"]
       \/ /\ mut' = [mut EXCEPT !.pc = "returned", !.ok = FALSE]
          /\ UNCHANGED version
    /\ UNCHANGED <<now, cache, lastSet, returned, rd, notMemo>>

\* what the tool does to the cache before it returns success
InvalidateOnSuccessSkipShare(c, op, u) ==
    IF op = "share" THEN c ELSE InvalidateUserCache(c, u)

InvalidateOnSuccess(c, op, u) == InvalidateUserCache(c, u)

\* the tool resumes: invalidate_user_cache(user_id), then success is returned
mutate_finish ==
    /\ mut.pc = "applied"
    /\ cache' = InvalidateOnSuccess(cache, mut.op, mut.owner)
    /\ lastSet' = InvalidateUserCache(lastSet, mut.owner)
    /\ returned' = [returned EXCEPT ![mut.owner] = @ + 1]
    /\ mut' = [mut EXCEPT !.pc = "returned", !.ok = TRUE,
                          !.cleared = Cardinality({k \in DOMAIN cache : k.user = mut.owner})]
    /\ UNCHANGED <<now, version, rd, notMemo>>

\* the caller has the outcome; the next mutation may start
mutate_return ==
    /\ mut.pc = "returned"
    /\ mut' = IdleMut
    /\ UNCHANGED <<now, cache, lastSet, version, returned, rd, notMemo>>

\* time passes
MemoTick ==
    /\ now < MaxTime
    /\ now' = now + 1
    /\ UNCHANGED <<cache, lastSet, version, returned, mut, rd, notMemo>>

NextMemo ==
    \/ \E r \in Readers : memo_call(r)
    \/ \E r \in Readers : memo_read(r)
    \/ \E r \in Readers : memo_store(r)
    \/ \E r \in Readers : memo_return(r)
    \/ mutate_call
    \/ mutate_apply
    \/ mutate_finish
    \/ mutate_return
    \/ MemoTick

SpecMemo == InitCache /\ [][NextMemo]_vars

(***************************************************************************)
(* The cached decorator when the cache or the real operation fails (spec   *)
(* section 7, cache failure): a failing get counts as a miss, a failing    *)
(* set leaves the result uncached, a failing operation fails the call.     *)
(***************************************************************************)
\* cache.get raises: the call goes on as on a miss, whatever the cache holds
memo_get_fails(r) ==
    /\ rd[r].pc = "idle"
    /\ \E c \in MemoCalls :
          rd' = [rd EXCEPT ![r] =
                    [pc |-> "running", call |-> c, key |-> CacheKey(c.op, c.user, c.args),
                     hit |-> FALSE, floor |-> 0, runs |-> 0, err |-> "get"]]
    /\ UNCHANGED <<now, cache, lastSet, version, returned, mut, notMemo>>

\* the real operation raises: the call fails with it, nothing is cached
memo_op_fails(r) ==
    /\ rd[r].pc = "running"
    /\ rd' = [rd EXCEPT ![r].pc = "failed", ![r].runs = @ + 1, ![r].err = "op"]
    /\ UNCHANGED <<now, cache, lastSet, version, returned, mut, notMemo>>

\* cache.set raises: the result is returned all the same
memo_set_failsRaises(r) ==
    /\ rd[r].pc = "fetched"
    /\ rd' = [rd EXCEPT ![r].pc = "failed", ![r].err = "set"]
    /\ UNCHANGED <<now, cache, lastSet, version, returned, mut, notMemo>>

memo_set_fails(r) ==
    /\ rd[r].pc = "fetched"
    /\ rd' = [rd EXCEPT ![r].pc = "done", ![r].err = "set"]
    /\ UNCHANGED <<now, cache, lastSet, version, returned, mut, notMemo>>

\* the caller has the failure
memo_raise(r) ==
    /\ rd[r].pc = "failed"
    /\ rd' = [rd EXCEPT ![r] = IdleRead]
    /\ UNCHANGED <<now, cache, lastSet, version, returned, mut, notMemo>>

NextFault ==
    \/ \E r \in Readers : memo_call(r)
    \/ \E r \in Readers : memo_get_fails(r)
    \/ \E r \in Readers : memo_read(r)
    \/ \E r \in Readers : memo_op_fails(r)
    \/ \E r \in Readers : memo_store(r)
    \/ \E r \in Readers : memo_set_fails(r)
    \/ \E r \in Readers : memo_return(r)
    \/ \E r \in Readers : memo_raise(r)
    \/ MemoTick

SpecFault == InitCache /\ [][NextFault]_vars

(***************************************************************************)
(* Claims about memoized reads and mutations.                              *)
(***************************************************************************)
\* C2: a memoized read that starts after a mutation of the same owner has returned
\* success never returns a cached value computed before that mutation.
C2_HitNeverStale ==
    \A r \in Readers :
        (rd[r].pc = "done" /\ rd[r].hit) => rd[r].result.ver >= rd[r].floor

C12_OncePerWindow ==
    [][\A r \in Readers :
          (/\ rd[r].pc = "idle"
           /\ rd'[r].pc # "idle"
           /\ \A o \in Readers \ {r} : rd[o].pc = "idle"
           /\ rd'[r].key \in DOMAIN lastSet
           /\ now < lastSet[rd'[r].key].until)
          => (/\ rd'[r].pc = "done"
              /\ rd'[r].hit
              /\ rd'[r].runs = 0
              /\ rd'[r].result = lastSet[rd'[r].key].value)]_vars

\* a call made alone, after time has passed, was served from the entry of an earlier call
C12_Witness ==
    \E r \in Readers :
        /\ rd[r].pc = "done"
        /\ rd[r].hit
        /\ rd[r].runs = 0
        /\ now > 0
        /\ \A o \in Readers \ {r} : rd[o].pc = "idle"

\* C13: of overlapping calls on a cold cache each invokes the real operation at most
\* once (exactly once on a miss) and returns the result of the real operation for its
\* own call; every entry of the cache holds a result of the real operation for the
\* call its key belongs to.
C13_ConcurrentMissesAreRedundantOnly ==
    /\ \A r \in Readers :
          /\ rd[r].runs <= 1
          /\ rd[r].pc \in {"fetched", "done"} =>
                /\ rd[r].result.call = rd[r].call
                /\ rd[r].result.ver \in 0..version[rd[r].call.user]
                /\ ~rd[r].hit => rd[r].runs = 1
    /\ \A k \in DOMAIN cache :
          LET c == cache[k].value.call
          IN  /\ CacheKey(c.op, c.user, c.args) = k
              /\ cache[k].value.ver \in 0..version[c.user]

\* two calls for the same key overlapped on a cold cache, each ran the real operation,
\* and the entry left is the result of one of them
C13_Witness ==
    /\ \A r \in Readers : rd[r].pc = "done" /\ ~rd[r].hit /\ rd[r].runs = 1
    /\ rd[1].key = rd[2].key
    /\ rd[1].key \in DOMAIN cache
    /\ \E r \in Readers : cache[rd[1].key].value = rd[r].result

C15_CacheErrorIsAMiss ==
    \A r \in Readers :
        /\ rd[r].pc = "failed" => rd[r].err = "op"
        /\ (rd[r].err = "get" /\ rd[r].pc # "idle") => ~rd[r].hit
        /\ (rd[r].pc = "done" /\ rd[r].err \in {"get", "set"}) =>
              /\ rd[r].runs = 1
              /\ rd[r].result.call = rd[r].call
              /\ rd[r].result.ver = version[rd[r].call.user]

\* a call whose get failed while the cache held a live entry for its key, and whose
\* set failed too, has returned the result of the real operation
C15_Witness ==
    \E r \in Readers :
        /\ rd[r].pc = "done"
        /\ rd[r].err = "set"
        /\ rd[r].runs = 1
        /\ Live(cache, rd[r].key, now)
        /\ \E o \in Readers : rd[o].pc = "done" /\ rd[o].err = "get" /\ rd[o].key = rd[r].key

(***************************************************************************)
(* rag.py, process_file_for_search and the OCR fallback of                 *)
(* smart_extract_text (CODE_QUALITY_IMPROVEMENTS.md 37-46 and 140-169).    *)
(* A file whose parsed text is shorter than MIN_TEXT_LENGTH goes to the    *)
(* OCR model; a rate-limit failure is retried after a backoff, up to       *)
(* OCR_RETRY_MAX_ATTEMPTS calls in all.                                    *)
(***************************************************************************)
\* the text of a file, whichever way it was extracted
OcrText == <<"a">>

\* the delay before the call after the attempt-th, in base delays: 1, 2, 4, ...
Backoff(attempt) == 2 ^ (attempt - 1)

\* whether the loop calls the OCR model again after a failed attempt
ShouldRetryAlways(attempt, err) == err = "rate_limit"

ShouldRetry(attempt, err) == err = "rate_limit" /\ attempt < OCR_RETRY_MAX_ATTEMPTS

InitOcr ==
    /\ CacheAtRest
    /\ collection = <<>>
    /\ srch = IdleSearch
    /\ vectorStore = <<>>
    /\ vectorEnv = TRUE
    /\ idx = IdleIdx
    /\ found = NoSearch
    /\ ocr = IdleOcr
    /\ deleted = {}
    /\ OthersAtRest

\* the call: the file is downloaded and parsed, and the parsed text is long enough
process_file_parsed ==
    /\ ocr.pc = "idle"
    /\ Len(collection) < MaxDocs
    /\ \E f \in SearchFileIds :
          ocr' = [IdleOcr EXCEPT !.pc = "index", !.file_id = f, !.base = Len(collection)]
    /\ UNCHANGED <<collection, notOcr>>

\* the call: the parsed text is shorter than MIN_TEXT_LENGTH, the OCR fallback starts
process_file_scanned ==
    /\ ocr.pc = "idle"
    /\ Len(collection) < MaxDocs
    /\ \E f \in SearchFileIds :
          ocr' = [IdleOcr EXCEPT !.pc = "ocr", !.file_id = f, !.base = Len(collection)]
    /\ UNCHANGED <<collection, notOcr>>

\* a call of the OCR model returns the text
ocr_attempt_ok ==
    /\ ocr.pc = "ocr"
    /\ ocr' = [ocr EXCEPT !.pc = "index", !.attempts = @ + 1, !.last = "ok"]
    /\ UNCHANGED <<collection, notOcr>>

\* a call of the OCR model fails: with a rate limit, retried after the backoff unless
\* the attempts are used up; with any other error, not retried
ocr_attempt_fails ==
    /\ ocr.pc = "ocr"
    /\ \E err \in {"rate_limit", "error"} :
          LET attempt == ocr.attempts + 1
          IN  ocr' = IF ShouldRetry(attempt, err)
                     THEN [ocr EXCEPT !.pc = "backoff", !.attempts = attempt, !.last = err]
                     ELSE [ocr EXCEPT !.pc = "failed", !.attempts = attempt, !.last = err,
                                      !.outcome = "ocr_failed"]
    /\ UNCHANGED <<collection, notOcr>>

\* the backoff has been slept
ocr_backoff ==
    /\ ocr.pc = "backoff"
    /\ ocr' = [ocr EXCEPT !.pc = "ocr", !.waited = @ + Backoff(ocr.attempts)]
    /\ UNCHANGED <<collection, notOcr>>

\* the text is chunked, embedded and written
index_chunks ==
    /\ ocr.pc = "index"
    /\ collection' = Append(collection, [file_id |-> ocr.file_id, content |-> OcrText,
                                         embedding |-> embedQuery(OcrText)])
    /\ ocr' = [ocr EXCEPT !.pc = "done", !.outcome = "indexed"]
    /\ UNCHANGED notOcr

\* the caller has the outcome
process_file_return ==
    /\ ocr.pc \in {"done", "failed"}
    /\ ocr' = IdleOcr
    /\ UNCHANGED <<collection, notOcr>>

\* the steps of the retry loop
OcrLoop == ocr_attempt_ok \/ ocr_attempt_fails \/ ocr_backoff

NextOcr ==
    \/ process_file_parsed
    \/ process_file_scanned
    \/ ocr_attempt_ok
    \/ ocr_attempt_fails
    \/ ocr_backoff
    \/ index_chunks
    \/ process_file_return

\* every call of the OCR model ends and every backoff elapses
SpecOcr == InitOcr /\ [][NextOcr]_vars /\ WF_vars(OcrLoop)

\* C20: the OCR fallback calls the model at most OCR_RETRY_MAX_ATTEMPTS times, calls
\* it again only after a rate-limit failure, ends the indexing in a reported failure
\* with no chunk written when the attempts are used up, and always terminates.
C20_OcrBoundedRetry ==
    /\ [](ocr.attempts <= OCR_RETRY_MAX_ATTEMPTS)
    /\ []((ocr.pc \in {"ocr", "backoff"} /\ ocr.attempts > 0) => ocr.last = "rate_limit")
    /\ [](ocr.pc = "failed" =>
            /\ ocr.outcome = "ocr_failed"
            /\ Len(collection) = ocr.base
            /\ ocr.last = "rate_limit" => ocr.attempts = OCR_RETRY_MAX_ATTEMPTS)
    /\ ((ocr.pc = "ocr") ~> (ocr.pc \in {"index", "failed"}))

\* the third call of the OCR model hit the rate limit as the first two had: the
\* indexing has failed after both backoffs, with nothing written for the file
C20_Witness ==
    /\ ocr.pc = "failed"
    /\ ocr.attempts = OCR_RETRY_MAX_ATTEMPTS
    /\ ocr.last = "rate_limit"
    /\ ocr.waited = Backoff(1) + Backoff(2)
    /\ Len(collection) = ocr.base
    /\ collection # <<>>

(***************************************************************************)
(* The chunkers: the split of rag.ts:58 with the piece size as a           *)
(* parameter, and chunk(text, chunkSize, overlap) of the Python agent,     *)
(* whose splitter is configured in CODE_QUALITY_IMPROVEMENTS.md 114-125    *)
(* and works inside the text-splitter library: windows of chunkSize        *)
(* characters, each starting overlap characters before the end of the one  *)
(* before it.                                                              *)
(***************************************************************************)
\* longest text handed to a chunker
MaxChunkText == 4
\* largest chunk size
MaxChunkSize == 3

ChunkTexts == UNION {[1..n -> Alphabet] : n \in 0..MaxChunkText}

Chunk(text, chunkSize, overlap) ==
    LET n == Len(text)
        step == chunkSize - overlap
        k == IF n = 0 THEN 0
             ELSE IF n <= chunkSize THEN 1
             ELSE (n - chunkSize + step - 1) \div step + 1
    IN  [j \in 1..k |-> SubSeq(text, (j - 1) * step + 1, Min((j - 1) * step + chunkSize, n))]

InitChunk == InitCache

\* rag.ts:58
split_text ==
    /\ chunked.pc = "idle"
    /\ \E text \in ChunkTexts, size \in 1..MaxChunkSize :
          chunked' = [pc |-> "done", by |-> "match", text |-> text, size |-> size,
                      overlap |-> 0, chunks |-> SplitBy(text, size)]
    /\ UNCHANGED <<agentVars, sim, webVars>>

\* text_splitter.split_text(text)
chunk_text ==
    /\ chunked.pc = "idle"
    /\ \E text \in ChunkTexts, size \in 1..MaxChunkSize :
          \E overlap \in 0..(size - 1) :
             chunked' = [pc |-> "done", by |-> "chunk", text |-> text, size |-> size,
                         overlap |-> overlap, chunks |-> Chunk(text, size, overlap)]
    /\ UNCHANGED <<agentVars, sim, webVars>>

\* the chunks are handed to the indexing loop
chunks_taken ==
    /\ chunked.pc = "done"
    /\ chunked' = NoChunks
    /\ UNCHANGED <<agentVars, sim, webVars>>

NextChunk ==
    \/ split_text
    \/ chunk_text
    \/ chunks_taken

SpecChunk == InitChunk /\ [][NextChunk]_vars

RECURSIVE Concat(_)
\* the chunks written one after the other
Concat(chunks) ==
    IF chunks = <<>> THEN <<>> ELSE Head(chunks) \o Concat(Tail(chunks))

\* the chunks written one after the other, each but the first without the overlap
\* characters it shares with the one before it
Rejoin(chunks, overlap) ==
    Concat([j \in 1..Len(chunks) |->
              IF j = 1 THEN chunks[j]
              ELSE SubSeq(chunks[j], overlap + 1, Len(chunks[j]))])

MaxCoord == 2

SimVectors == [1..2 -> (0 - MaxCoord)..MaxCoord]

InitSim == InitCache

\* score = cosine_sim(query, vec)
sim_call ==
    /\ sim.pc = "idle"
    /\ \E a \in SimVectors, b \in SimVectors :
          sim' = [pc |-> "done", a |-> a, b |-> b, result |-> cosine_sim(a, b)]
    /\ UNCHANGED <<agentVars, chunked, webVars>>

\* all_scores.append((score, d['content']))
sim_taken ==
    /\ sim.pc = "done"
    /\ sim' = NoSim
    /\ UNCHANGED <<agentVars, chunked, webVars>>

NextSim ==
    \/ sim_call
    \/ sim_taken

SpecSim == InitSim /\ [][NextSim]_vars

IsZero(a) == a = <<0, 0>>
Neg(a) == <<0 - a[1], 0 - a[2]>>

\* C25: the similarity of a non-zero vector and itself is 1, of a non-zero vector
\* and its negation -1, of the zero vector and any vector 0, and the divisor of the
\* result is never zero.
C25_CosineEdgeCases ==
    sim.pc = "done" =>
        /\ sim.result.den > 0
        /\ (IsZero(sim.a) \/ IsZero(sim.b)) => sim.result = [num |-> 0, den |-> 1]
        /\ (sim.b = sim.a /\ ~IsZero(sim.a)) => sim.result = [num |-> 1, den |-> 1]
        /\ (sim.b = Neg(sim.a) /\ ~IsZero(sim.a)) =>
              sim.result = [num |-> 0 - 1, den |-> 1]

\* a non-zero vector has been compared with its negation, and the result is -1
C25_Witness ==
    /\ sim.pc = "done"
    /\ ~IsZero(sim.a)
    /\ sim.b = Neg(sim.a)
    /\ sim.result.num = 0 - 1

(***************************************************************************)
(* The chat proxy route (app/api/ai/chat, POST), one action per await.     *)
(***************************************************************************)
SessionValues == {"", "s1", "s2", "s3"}
SessionCookies == {NoCookie} \cup [present : {TRUE}, value : SessionValues]
\* the bodies of the request: one that is no JSON, and two questions
ProxyBodies == {"malformed", "q1", "q2"}
\* the statuses the backend answers with
BackendStatuses == {200, 400, 401, 429, 500, 503}

\* the cookie is forwarded when present, its value empty or not
HasSessionPresentOnly(cookie) == cookie.present

\* line 10, negated: sessionCookie && sessionCookie.value
HasSession(cookie) == cookie.present /\ cookie.value # ""

\* response.ok
StatusOk(status) == status >= 200 /\ status <= 299

InitProxy == InitCache

POST_call ==
    /\ proxy.pc = "idle"
    /\ \E c \in SessionCookies, b \in ProxyBodies :
          proxy' = [IdleProxy EXCEPT !.pc = "cookies", !.cookie = c, !.body = b]
    /\ UNCHANGED <<agentVars, pureVars, route, chat>>

\* lines 7-15
POST_cookies ==
    /\ proxy.pc = "cookies"
    /\ proxy' = IF HasSession(proxy.cookie)
                THEN [proxy EXCEPT !.pc = "json"]
                ELSE [proxy EXCEPT !.pc = "done", !.status = 401]
    /\ UNCHANGED <<agentVars, pureVars, route, chat>>

\* line 18: request.json() throws when the body is no JSON
POST_json ==
    /\ proxy.pc = "json"
    /\ proxy' = IF proxy.body = "malformed"
                THEN [proxy EXCEPT !.pc = "done", !.status = 500, !.threw = TRUE]
                ELSE [proxy EXCEPT !.pc = "fetch"]
    /\ UNCHANGED <<agentVars, pureVars, route, chat>>

\* lines 22-45: the request goes to the backend; the backend answers, or fetch throws
POST_fetch ==
    /\ proxy.pc = "fetch"
    /\ LET sent == Append(proxy.calls, [bearer |-> proxy.cookie.value, body |-> proxy.body])
       IN  \/ \E st \in BackendStatuses :
                 proxy' = IF StatusOk(st)
                          THEN [proxy EXCEPT !.pc = "done", !.calls = sent, !.backend = st,
                                             !.status = 200]
                          ELSE [proxy EXCEPT !.pc = "text", !.calls = sent, !.backend = st]
           \/ proxy' = [proxy EXCEPT !.pc = "done", !.calls = sent, !.status = 500,
                                     !.threw = TRUE]
    /\ UNCHANGED <<agentVars, pureVars, route, chat>>

\* lines 32-36: the text of the error is read, or reading it throws
POST_text ==
    /\ proxy.pc = "text"
    /\ \/ proxy' = [proxy EXCEPT !.pc = "done", !.status = proxy.backend]
       \/ proxy' = [proxy EXCEPT !.pc = "done", !.status = 500, !.threw = TRUE]
    /\ UNCHANGED <<agentVars, pureVars, route, chat>>

\* the response is sent
POST_return ==
    /\ proxy.pc = "done"
    /\ proxy' = IdleProxy
    /\ UNCHANGED <<agentVars, pureVars, route, chat>>

NextProxy ==
    \/ POST_call
    \/ POST_cookies
    \/ POST_json
    \/ POST_fetch
    \/ POST_text
    \/ POST_return

SpecProxy == InitProxy /\ [][NextProxy]_vars

\* the request came without the cookie or with an empty one
NoSessionValue == ~proxy.cookie.present \/ proxy.cookie.value = ""

\* without a session nothing goes to the backend and the answer is 401; no request
\* makes more than one backend call, and a call carries the value of the cookie
ProxyGuard ==
    /\ NoSessionValue => proxy.calls = <<>>
    /\ (NoSessionValue /\ proxy.pc = "done") => proxy.status = 401
    /\ Len(proxy.calls) <= 1
    /\ \A k \in 1..Len(proxy.calls) :
          /\ proxy.calls[k].bearer = proxy.cookie.value
          /\ proxy.calls[k].body = proxy.body
    /\ (proxy.pc = "done" /\ proxy.threw) => proxy.status = 500

\* C28 as stated: with the cookie every request makes exactly one backend call, and
\* the status of a backend error is the status of the answer.
C28_ProxyAlwaysForwards ==
    /\ ProxyGuard
    /\ (proxy.pc = "done" /\ ~NoSessionValue) => Len(proxy.calls) = 1
    /\ (proxy.pc = "done" /\ proxy.backend # 0 /\ ~StatusOk(proxy.backend)) =>
          proxy.status = proxy.backend

\* C28: without a non-empty appwrite-session cookie the route answers 401 and calls
\* no backend; with it the route calls the backend at most once, once when the body of
\* the request is JSON, with the value of the cookie as the Bearer token; the answer has
\* the status of the backend's error when the text of the error was read, and 500 when
\* reading the body, the fetch or reading the error text throws.
C28_ProxyForwardsOnlyWithSession ==
    /\ ProxyGuard
    /\ (proxy.pc = "done" /\ ~NoSessionValue /\ proxy.body # "malformed") =>
          Len(proxy.calls) = 1
    /\ (proxy.pc = "done" /\ ~NoSessionValue /\ proxy.body = "malformed") =>
          (proxy.calls = <<>> /\ proxy.status = 500)
    /\ (proxy.pc = "done" /\ proxy.backend # 0 /\ ~StatusOk(proxy.backend)) =>
          proxy.status = IF proxy.threw THEN 500 ELSE proxy.backend
    /\ (proxy.pc = "done" /\ StatusOk(proxy.backend)) => proxy.status = 200

\* a request with a session was forwarded once and the backend's 429 came back
C28_Witness ==
    /\ proxy.pc = "done"
    /\ proxy.cookie.value = "s1"
    /\ Len(proxy.calls) = 1
    /\ proxy.backend = 429
    /\ proxy.status = 429

(***************************************************************************)
(* The file route (app/api/files/[fileId], GET), one action per await.     *)
(***************************************************************************)
Accounts == {[kind |-> "user", id |-> "u1", email |-> "e1"],
             [kind |-> "user", id |-> "u2", email |-> "e2"]}
\* getCurrentUser returns an account, returns null, or throws
CurrentUsers == Accounts \cup {NoUser, [kind |-> "throws", id |-> "", email |-> ""]}
\* file.owner is the id of a user, a document with $id, or missing
FileOwners == [kind : {"string", "object"}, id : {"u1", "u2"}] \cup {NoFile.owner}
FileDocuments == {NoFile} \cup [present : {TRUE}, owner : FileOwners, users : SUBSET {"e1", "e2"}]

\* line 67
OwnerIdOf(owner) ==
    IF owner.kind = "string" THEN owner.id
    ELSE IF owner.kind = "object" THEN owner.id
    ELSE "undefined"

\* a file shared with anybody is open to everybody
HasAccessWhenShared(file, user) ==
    OwnerIdOf(file.owner) = user.id \/ file.users # {}

\* lines 69-71
HasAccess(file, user) ==
    OwnerIdOf(file.owner) = user.id \/ user.email \in file.users

InitRoute == InitCache

GET_call ==
    /\ route.pc = "idle"
    /\ \E u \in CurrentUsers, f \in FileDocuments :
          route' = [IdleRoute EXCEPT !.pc = "user", !.user = u, !.file = f]
    /\ UNCHANGED <<agentVars, pureVars, proxy, chat>>

\* lines 23-40
GET_getCurrentUser ==
    /\ route.pc = "user"
    /\ route' = IF route.user.kind = "user"
                THEN [route EXCEPT !.pc = "client"]
                ELSE [route EXCEPT !.pc = "done", !.status = 401]
    /\ UNCHANGED <<agentVars, pureVars, proxy, chat>>

\* line 45; an exception goes to the catch of line 158
GET_createAdminClient ==
    /\ route.pc = "client"
    /\ \/ route' = [route EXCEPT !.pc = "document"]
       \/ route' = [route EXCEPT !.pc = "done", !.status = 500, !.threw = TRUE]
    /\ UNCHANGED <<agentVars, pureVars, proxy, chat>>

\* lines 49-63
GET_getDocument ==
    /\ route.pc = "document"
    /\ route' = IF route.file.present
                THEN [route EXCEPT !.pc = "access"]
                ELSE [route EXCEPT !.pc = "done", !.status = 404]
    /\ UNCHANGED <<agentVars, pureVars, proxy, chat>>

\* lines 67-80
GET_access ==
    /\ route.pc = "access"
    /\ route' = IF HasAccess(route.file, route.user)
                THEN [route EXCEPT !.pc = "download"]
                ELSE [route EXCEPT !.pc = "done", !.status = 403]
    /\ UNCHANGED <<agentVars, pureVars, proxy, chat>>

\* lines 85-157: the storage answers with the bytes, or the download fails
GET_download ==
    /\ route.pc = "download"
    /\ \/ route' = [route EXCEPT !.pc = "done", !.downloads = route.downloads + 1,
                                  !.status = 200]
       \/ route' = [route EXCEPT !.pc = "done", !.downloads = route.downloads + 1,
                                  !.status = 500, !.threw = TRUE]
    /\ UNCHANGED <<agentVars, pureVars, proxy, chat>>

\* the response is sent
GET_return ==
    /\ route.pc = "done"
    /\ route' = IdleRoute
    /\ UNCHANGED <<agentVars, pureVars, proxy, chat>>

NextRoute ==
    \/ GET_call
    \/ GET_getCurrentUser
    \/ GET_createAdminClient
    \/ GET_getDocument
    \/ GET_access
    \/ GET_download
    \/ GET_return

SpecRoute == InitRoute /\ [][NextRoute]_vars

\* the request is made by an account that owns the file or is in its shared users
Entitled ==
    /\ route.user.kind = "user"
    /\ route.file.present
    /\ \/ route.file.owner.kind # "null" /\ route.file.owner.id = route.user.id
       \/ route.user.email \in route.file.users

\* C29: the answer is 200 only for a current user that owns the file or whose email
\* is in its shared users; it is 401 without a user, 404 for a missing file and 403
\* for a user without access, and then nothing is downloaded from the storage.
C29_FileRouteGuard ==
    /\ ~Entitled => route.downloads = 0
    /\ route.status = 200 => (Entitled /\ route.downloads = 1)
    /\ route.status \in {401, 403, 404} => route.downloads = 0
    /\ (route.pc = "done" /\ route.user.kind # "user") => route.status = 401
    /\ (route.pc = "done" /\ route.user.kind = "user" /\ ~route.threw) =>
          /\ ~route.file.present => route.status = 404
          /\ (route.file.present /\ ~Entitled) => route.status = 403

\* a user who does not own the file but is in its shared users has got the bytes
C29_Witness ==
    /\ route.pc = "done"
    /\ route.status = 200
    /\ route.downloads = 1
    /\ route.user.id = "u2"
    /\ route.file.owner.id = "u1"
    /\ route.file.users = {"e2"}

(***************************************************************************)
(* The chat component (components/AI/ChatInterface.tsx).  A handler reads  *)
(* the state of the render it was created in: the form calls the           *)
(* handleSubmit of the current render, the timeout of a quick suggestion   *)
(* calls the handleSubmit of the render in which the button was clicked.   *)
(* The state setters act on the current state.                             *)
(***************************************************************************)
\* most timeouts of quick suggestions pending at once
MaxTimers == 2
\* most messages in the chat
MaxMessages == 4

\* what the user types
TypedInputs == {"", " ", "t"}

\* !input.trim()
IsBlank(input) == input \in {"", " "}

\* the values a handleSubmit created in the current render reads
Rendered(c) == [input |-> c.input, loading |-> c.loading, logged |-> c.user = "user"]

\* lines 55-86: handleSubmit reading seen, up to the await of the fetch
handleSubmit(c, seen) ==
    IF IsBlank(seen.input) \/ seen.loading THEN c
    ELSE IF ~seen.logged THEN [c EXCEPT !.messages = Append(@, "login")]
    ELSE [c EXCEPT !.input = "", !.loading = TRUE, !.messages = Append(@, "user"),
                   !.flights = @ + 1]

InitChat == InitCache

\* lines 47-53
fetchUser ==
    /\ chat.user = "pending"
    /\ \E u \in {"null", "user"} : chat' = [chat EXCEPT !.user = u]
    /\ UNCHANGED <<agentVars, pureVars, proxy, route>>

\* line 324, the input being disabled while loading (line 326)
onChange ==
    /\ ~chat.loading
    /\ \E t \in TypedInputs \ {chat.input} : chat' = [chat EXCEPT !.input = t]
    /\ UNCHANGED <<agentVars, pureVars, proxy, route>>

\* line 319
onSubmit ==
    /\ Len(chat.messages) < MaxMessages
    /\ chat' = handleSubmit(chat, Rendered(chat))
    /\ UNCHANGED <<agentVars, pureVars, proxy, route>>

\* lines 293-308: the buttons are rendered under line 293
quickQuestion_onClick ==
    /\ Len(chat.messages) <= 1
    /\ ~chat.loading
    /\ Len(chat.timers) < MaxTimers
    /\ chat' = [chat EXCEPT !.input = "q", !.timers = Append(@, Rendered(chat))]
    /\ UNCHANGED <<agentVars, pureVars, proxy, route>>

\* lines 305-307: the timeout of the earliest click elapses
quickQuestion_timeout ==
    /\ chat.timers # <<>>
    /\ Len(chat.messages) < MaxMessages
    /\ chat' = handleSubmit([chat EXCEPT !.timers = Tail(@)], Head(chat.timers))
    /\ UNCHANGED <<agentVars, pureVars, proxy, route>>

\* lines 94-115 and 125-127: the answer was streamed to its end
answer_streamed ==
    /\ chat.flights > 0
    /\ chat' = [chat EXCEPT !.flights = @ - 1, !.loading = FALSE,
                            !.messages = Append(@, "answer")]
    /\ UNCHANGED <<agentVars, pureVars, proxy, route>>

\* lines 88-91 and 117-127: the fetch threw, the answer was an error, or a read threw
answer_failed ==
    /\ chat.flights > 0
    /\ chat' = [chat EXCEPT !.flights = @ - 1, !.loading = FALSE,
                            !.messages = Append(@, "error")]
    /\ UNCHANGED <<agentVars, pureVars, proxy, route>>

\* lines 94-97 and 125-127: the answer has no body
answer_without_body ==
    /\ chat.flights > 0
    /\ chat' = [chat EXCEPT !.flights = @ - 1, !.loading = FALSE]
    /\ UNCHANGED <<agentVars, pureVars, proxy, route>>

NextChat ==
    \/ fetchUser
    \/ onChange
    \/ onSubmit
    \/ quickQuestion_onClick
    \/ quickQuestion_timeout
    \/ answer_streamed
    \/ answer_failed
    \/ answer_without_body

SpecChat == InitChat /\ [][NextChat]_vars

\* C30: at most one request is in flight; while loading is true no request is sent
\* and no message is appended but the one that ends the request; a request is sent
\* together with one user message, and ends with exactly one AI message, the answer
\* or an error text, and with loading false.
C30_OneRequestInFlight ==
    /\ [](chat.flights <= 1)
    /\ [][chat.loading =>
            /\ chat'.flights <= chat.flights
            /\ chat'.flights = chat.flights => chat'.messages = chat.messages]_vars
    /\ [][chat'.flights = chat.flights + 1 =>
            chat'.messages = Append(chat.messages, "user")]_vars
    /\ [][chat'.flights = chat.flights - 1 =>
            /\ \/ chat'.messages = Append(chat.messages, "answer")
               \/ chat'.messages = Append(chat.messages, "error")
            /\ ~chat'.loading]_vars
====
